---- MODULE Spec2Model ----
(***************************************************************************)
(* chat-lib: the realtime layer of the client SDK.                         *)
(*                                                                         *)
(* WebSocketEndpoint keeps a map from a handle (alias name) to the web     *)
(* socket that was stored for it; Client.subscribe / Client.unsubscribe    *)
(* call openWebSocketFor / closeWebSocketFor.  The browser's WebSocket is  *)
(* the environment: a socket starts CONNECTING and the browser later fires *)
(* open, or error followed by close, and for an open socket message and    *)
(* close events.  Every event listener runs to completion (single-threaded *)
(* event loop); promise reactions run right after the listener that        *)
(* settled the promise, so a listener and the continuations it wakes are   *)
(* one step.                                                               *)
(*                                                                         *)
(* Client, on top of it: the listeners that dispatch the endpoint's events *)
(* again on the Client, login and logout around the requests of            *)
(* AuthEndpoint, and the two pure functions getMessages (its validation    *)
(* and its filter) and groupMessagesByUniqueRecipients, each under a       *)
(* specification of its own that starts from the arguments of one call.    *)
(***************************************************************************)
EXTENDS Naturals, Sequences, FiniteSets, TLC

\* ---- bounds of the model -------------------------------------------------
MaxCalls == 3

\* Client.subscribe calls over a run in which frames arrive on the sockets.
MaxFrameCalls == 2

\* Requests of one kind (login, logout) the AuthEndpoint has in flight at once.
MaxPending == 1

\* Login calls that succeed or are still in flight, over a run of the session.
MaxLogins == 2

\* The length of the from, to and participants arrays of a getMessages call.
MaxLen == 2

\* The number of messages groupMessagesByUniqueRecipients is called with.
MaxMessages == 2

\* The handles (alias names) subscribe and unsubscribe are called with.
Handles == {"alice", "bob"}

\* No socket: the handle is not an own property of the map.
NoSocket == 0

VARIABLES
    aliasNameToWebSocket,  \* WebSocketEndpoint.#aliasNameToWebSocket: handle -> socket id or NoSocket
    sockets,               \* every WebSocket constructed so far:
                           \*   <<[aliasName, readyState, opened, dropped]>>
    calls,                 \* every Client.subscribe call: <<[handle, socket, state, first]>>
    lastOp,                \* the step that was just taken and its arguments
    emitted,               \* events the endpoint dispatched during the last step
    thrown,                \* the exception that escaped the last step, "none" if none
    unsubscribedWhileConnecting,
                           \* history: per handle, unsubscribe found the handle
                           \* CONNECTING and no subscribe for it was issued since
    clientEvents,          \* events the Client dispatched during the last step
    account,               \* Client.account
    auth,                  \* requests of AuthEndpoint in flight: [login, logout]
    sessionOp,             \* the Client operation the last step completed, "none" if none
    gm,                    \* one Client.getMessages call: its arguments and its progress
    grouping,              \* one Client.groupMessagesByUniqueRecipients call: argument and result
    http,                  \* one call of request: its arguments, the response, how it settles
    loggedOut,             \* history: the handle of the account the last logout that
                           \* went through cleared, "none" if there was none
    closedSince            \* history: per handle, a connection of the handle was closed
                           \* (by unsubscribe or by the server) and no subscribe for
                           \* it was issued since

vars == <<aliasNameToWebSocket, sockets, calls, lastOp, emitted, thrown,
          unsubscribedWhileConnecting, clientEvents, account, auth, sessionOp,
          gm, grouping, http, loggedOut, closedSince>>

\* The variables of the session, of getMessages and of the grouping function.
sessionVars == <<account, auth, sessionOp, loggedOut>>

pureVars == <<gm, grouping, http>>

SocketIds == 1..Len(sockets)
CallIds == 1..Len(calls)

\* ---- inbound frames --------------------------------------------------------
\* evt.data is a text; Malformed is a text JSON.parse rejects.  A parsed frame
\* has a type and, by type, a messageId or a message ("undefined" if absent).
Malformed == [parsable |-> FALSE, type |-> "undefined", messageId |-> "undefined", message |-> "undefined"]

MessageFrame(t) == [parsable |-> TRUE, type |-> t, messageId |-> "m1", message |-> "undefined"]

UnauthorizedFrame == [parsable |-> TRUE, type |-> "unauthorized", messageId |-> "undefined", message |-> "denied"]

MessageFrameTypes == {"new_message", "message_update", "message_delete"}

Frames ==
    {MessageFrame(t) : t \in MessageFrameTypes \cup {"typing"}} \cup {UnauthorizedFrame, Malformed}

NoFrame == [parsable |-> FALSE, type |-> "none", messageId |-> "undefined", message |-> "undefined"]

\* ---- the step record -------------------------------------------------------
Op(name, h, s, c, f) == [op |-> name, handle |-> h, socket |-> s, call |-> c, frame |-> f]

\* ---- request and getErrorFromResponse ----------------------------------------
\* The status codes of the responses; Response.ok is true for 200 to 299.
StatusCodes == {200, 201, 204, 400, 401, 403, 404, 500}

ok(response) == response.status \in 200..299

\* The body of a response: a text that is JSON or is not, and, if it is JSON,
\* the value of its message property ("undefined" if it has none).
Body(json, message) == [json |-> json, message |-> message]

Bodies == {Body(TRUE, m) : m \in {"denied", "not found", "undefined"}} \cup {Body(FALSE, "undefined")}

Response(status, body) == [status |-> status, body |-> body]

Responses == {Response(st, b) : st \in StatusCodes, b \in Bodies}

NoResponse == Response(0, Body(FALSE, "undefined"))

\* How a promise settles: fulfilled with a value or rejected with an error.
Outcome(state, error, message, value) ==
    [state |-> state, error |-> error, message |-> message, value |-> value]

NoOutcome == Outcome("pending", "none", "", Body(FALSE, "undefined"))

\* new Error(m).message: the empty string for m undefined.
ErrorMessage(m) == IF m = "undefined" THEN "" ELSE m

\* Mutant: the error does not take the message of the body.
getErrorFromResponse_ownMessage(response) ==
    IF ok(response)
    THEN Outcome("resolved", "none", "", response.body)
    ELSE IF response.body.json
    THEN Outcome("rejected", "Error", "api error", response.body)
    ELSE Outcome("rejected", "SyntaxError", "", response.body)

\* getErrorFromResponse(response): the response itself if it is ok; otherwise
\* response.json() is awaited, which rejects on a body that is not JSON, and
\* new Error(errorJSON.message) is thrown.
getErrorFromResponse(response) ==
    IF ok(response)
    THEN Outcome("resolved", "none", "", response.body)
    ELSE IF response.body.json
    THEN Outcome("rejected", "Error", ErrorMessage(response.body.message), response.body)
    ELSE Outcome("rejected", "SyntaxError", "", response.body)

\* response[responseType](): json() parses the body, text() returns it.
read(response, responseType) ==
    IF responseType = "json" /\ ~response.body.json
    THEN Outcome("rejected", "SyntaxError", "", response.body)
    ELSE Outcome("resolved", "none", "", response.body)

\* No request, and the arguments of one request.
NoRequest ==
    [phase |-> "idle", method |-> "GET", responseType |-> "json", fetches |-> 0,
     response |-> NoResponse, checked |-> NoOutcome, outcome |-> NoOutcome]

Requests ==
    {[NoRequest EXCEPT !.phase = "called", !.method = m, !.responseType = t] :
        m \in {"GET", "POST", "PUT", "DELETE"}, t \in {"json", "text"}}

\* ---- the Client's session ---------------------------------------------------
\* An Account, by the handle AuthEndpoint.login gives it; this.account = undefined.
Account(h) == [handle |-> h]

NoAccount == [handle |-> "undefined"]

\* No getMessages call and no groupMessagesByUniqueRecipients call.
NoGetMessages ==
    [phase |-> "idle", from |-> <<>>, to |-> <<>>, participants |-> <<>>,
     match |-> "undefined", exact |-> "undefined",
     requests |-> 0, fetched |-> <<>>, result |-> <<>>]

NoGrouping == [phase |-> "idle", messages |-> <<>>, groups |-> <<>>]

\* The endpoint after construction: no socket, nothing stored.
EndpointInit ==
    /\ aliasNameToWebSocket = [h \in Handles |-> NoSocket]
    /\ sockets = <<>>
    /\ calls = <<>>
    /\ lastOp = Op("init", "none", NoSocket, 0, NoFrame)
    /\ emitted = <<>>
    /\ thrown = "none"
    /\ unsubscribedWhileConnecting = [h \in Handles |-> FALSE]
    /\ closedSince = [h \in Handles |-> FALSE]

\* The Client operation a step completes: the account the server returned to
\* login, the account that was logged in when logout went on, and this.account
\* as it was when the step called dispatchEvent.
SessionOp(name, returned, previous, atDispatch) ==
    [op |-> name, returned |-> returned, previous |-> previous, accountAtDispatch |-> atDispatch]

NoSessionOp == SessionOp("none", NoAccount, NoAccount, NoAccount)

\* The Client after construction: no account, no request in flight.
ClientInit ==
    /\ clientEvents = <<>>
    /\ account = NoAccount
    /\ auth = [login |-> 0, logout |-> 0]
    /\ sessionOp = NoSessionOp
    /\ loggedOut = "none"

Init ==
    /\ EndpointInit
    /\ ClientInit
    /\ gm = NoGetMessages
    /\ grouping = NoGrouping
    /\ http = NoRequest

\* ---- WebSocketEndpoint.#getWebSocketForAlias: the map and the promise ------
\* Mutant: the look-up in the map never finds the handle.
hasOwnProperty_never(map, aliasName) == FALSE

\* this.#aliasNameToWebSocket.hasOwnProperty(aliasName)
hasOwnProperty(map, aliasName) == map[aliasName] # NoSocket

\* new WebSocket(url): the socket the promise executor constructs.
\* opened and dropped are history: the open event fired; the close came from
\* the server or the network and not from close().
NewWebSocket(aliasName) ==
    [aliasName |-> aliasName, readyState |-> "CONNECTING", opened |-> FALSE, dropped |-> FALSE]

\* Mutant: the open listener forgets to store the socket.
onOpenMap_noStore(map, aliasName, socket) == map

\* The open listener's write: this.#aliasNameToWebSocket[aliasName] = socket
onOpenMap(map, aliasName, socket) == [map EXCEPT ![aliasName] = socket]

\* Mutant: the close listener leaves the entry in the map.
onCloseMap_keepsEntry(map, aliasName) == map

\* The close listener's write: delete this.#aliasNameToWebSocket[aliasName]
onCloseMap(map, aliasName) == [map EXCEPT ![aliasName] = NoSocket]

\* Mutant: the open and error listeners settle no promise.
settle_never(cs, socket, outcome) == cs

\* resolve(socket) / reject(evt): the promise of a socket is awaited by the one
\* openWebSocketFor call that constructed it, and through it by Client.subscribe.
\* Settling a promise twice does nothing, so only pending calls change.
settle(cs, socket, outcome) ==
    [c \in 1..Len(cs) |->
        IF cs[c].socket = socket /\ cs[c].state = "pending"
        THEN [cs[c] EXCEPT !.state = outcome]
        ELSE cs[c]]

\* ---- the message listener --------------------------------------------------
\* Mutant: alias is bound too where the listener's body is evaluated.
InScope_withAlias ==
    {"aliasName", "resolve", "reject", "url", "socket", "evt", "data", "messageEvent", "alias"}

\* The identifiers that are bound where the listener's body is evaluated.
InScope == {"aliasName", "resolve", "reject", "url", "socket", "evt", "data", "messageEvent"}

\* The shorthand property the listener puts in detail next to the payload.
DetailShorthand == "alias"

\* Mutant: a type the listener does not know is forwarded under its own name.
messageEventFor_forwardsUnknown(type) ==
    CASE type = "new_message" -> "message"
      [] type = "message_update" -> "messageupdate"
      [] type = "message_delete" -> "messagedelete"
      [] OTHER -> type

messageEventFor(type) ==
    CASE type = "new_message" -> "message"
      [] type = "message_update" -> "messageupdate"
      [] type = "message_delete" -> "messagedelete"
      [] OTHER -> "undefined"

\* new CustomEvent(type, {detail: {<payloadKey>: payload, <handleKey>}})
CustomEvent(type, payloadKey, payload, handleKey, handleValue) ==
    [type |-> type, payloadKey |-> payloadKey, payload |-> payload,
     handleKey |-> handleKey, handle |-> handleValue]

\* The listener on one frame: the events it dispatches, in order, and the
\* exception that escapes it.  JSON.parse throws on a text that is no JSON;
\* evaluating a shorthand property whose identifier is unbound throws too.
onMessage(frame, aliasName) ==
    IF ~frame.parsable
    THEN [emitted |-> <<>>, thrown |-> "SyntaxError"]
    ELSE LET messageEvent == messageEventFor(frame.type)
             IN
             IF (messageEvent # "undefined" \/ frame.type = "unauthorized")
                /\ DetailShorthand \notin InScope
             THEN [emitted |-> <<>>, thrown |-> "ReferenceError"]
             ELSE [emitted |->
                       (IF messageEvent # "undefined"
                        THEN <<CustomEvent(messageEvent, "messageId", frame.messageId,
                                           DetailShorthand, aliasName)>>
                        ELSE <<>>)
                       \o
                       (IF frame.type = "unauthorized"
                        THEN <<CustomEvent("autherror", "message", frame.message,
                                           DetailShorthand, aliasName)>>
                        ELSE <<>>),
                   thrown |-> "none"]

\* ---- the Client's listeners on the endpoint ---------------------------------
\* Mutant: the Client listens for the deletion event under another name.
RedirectedEvents_otherName == {"message", "messageupdate", "messagedelete", "autherror"}

\* The events of the endpoint the constructor of Client adds a listener for.
RedirectedEvents == {"message", "messageupdate", "messagedeletion", "autherror"}

\* The listener: evtCopy = new CustomEvent(evt.type, {detail: evt.detail});
\* this.dispatchEvent(evtCopy).  What the Client dispatches for one event that
\* is dispatched on the endpoint.
redirect(evt) ==
    IF evt.type \in RedirectedEvents
    THEN <<CustomEvent(evt.type, evt.payloadKey, evt.payload, evt.handleKey, evt.handle)>>
    ELSE <<>>

\* What the Client dispatches while the endpoint dispatches a list of events.
RECURSIVE redirectAll(_)
redirectAll(evts) ==
    IF evts = <<>> THEN <<>> ELSE redirect(Head(evts)) \o redirectAll(Tail(evts))

\* ---- WebSocketEndpoint.closeWebSocketFor -----------------------------------
\* Client.unsubscribe calls closeWebSocketFor, which no WebSocketEndpoint among
\* the sources defines.  It is taken from the specification's transitions of
\* unsubscribe: OPEN - close the connection and drop the entry; CONNECTING -
\* cancel the attempt in flight; UNSUBSCRIBED - nothing.
\* The attempts in flight for a handle.
InFlight(socks, handle) ==
    {s \in 1..Len(socks) : socks[s].aliasName = handle /\ socks[s].readyState = "CONNECTING"}

\* close() on the stored connection of the handle and on every attempt in
\* flight for it: WebSocket.close() moves a CONNECTING or OPEN socket to CLOSING.
closeSockets(socks, map, handle) ==
    [s \in 1..Len(socks) |->
        IF s = map[handle] \/ s \in InFlight(socks, handle)
        THEN [socks[s] EXCEPT !.readyState = "CLOSING"]
        ELSE socks[s]]

\* The handle is UNSUBSCRIBED afterwards: its entry is gone.
closeMap(map, handle) == [map EXCEPT ![handle] = NoSocket]

\* Mutant: closeWebSocketFor calls close() on the entry without looking whether
\* there is one, and throws on a handle that has none.
closeWebSocketFor_throwsWithoutEntry(socks, map, handle) ==
    IF map[handle] = NoSocket
    THEN [sockets |-> socks, map |-> map, thrown |-> "TypeError"]
    ELSE [sockets |-> closeSockets(socks, map, handle),
          map |-> closeMap(map, handle),
          thrown |-> "none"]

\* Mutant: closeWebSocketFor closes the sockets and leaves the entry stored.
closeWebSocketFor_keepsEntry(socks, map, handle) ==
    [sockets |-> closeSockets(socks, map, handle), map |-> map, thrown |-> "none"]

\* closeWebSocketFor(handle): the sockets and the map it leaves, and what it
\* throws.  With nothing stored and nothing in flight it changes nothing.
closeWebSocketFor(socks, map, handle) ==
    [sockets |-> closeSockets(socks, map, handle),
     map |-> closeMap(map, handle),
     thrown |-> "none"]

\* History of a call: the oldest call for the handle that was still pending
\* when call number c was issued, c itself if there was none.
FirstPending(cs, h, c) ==
    LET older == {d \in 1..Len(cs) : cs[d].handle = h /\ cs[d].state = "pending"}
    IN IF older = {} THEN c ELSE CHOOSE d \in older : \A e \in older : d <= e

\* ---- operations ------------------------------------------------------------
\* Client.subscribe(handle): await openWebSocketFor(handle).  A stored socket
\* is returned in an already resolved promise; otherwise a socket is
\* constructed and the call waits for its open or error event.
subscribe(h) ==
    /\ UNCHANGED pureVars
    /\ Len(calls) < MaxCalls
    /\ IF hasOwnProperty(aliasNameToWebSocket, h)
       THEN /\ calls' = Append(calls, [handle |-> h, socket |-> aliasNameToWebSocket[h],
                                       state |-> "resolved",
                                       first |-> FirstPending(calls, h, Len(calls) + 1)])
            /\ UNCHANGED sockets
       ELSE /\ sockets' = Append(sockets, NewWebSocket(h))
            /\ calls' = Append(calls, [handle |-> h, socket |-> Len(sockets) + 1,
                                       state |-> "pending",
                                       first |-> FirstPending(calls, h, Len(calls) + 1)])
    /\ lastOp' = Op("subscribe", h, calls'[Len(calls')].socket, Len(calls) + 1, NoFrame)
    /\ emitted' = <<>>
    /\ thrown' = "none"
    /\ unsubscribedWhileConnecting' = [unsubscribedWhileConnecting EXCEPT ![h] = FALSE]
    /\ closedSince' = [closedSince EXCEPT ![h] = FALSE]
    /\ UNCHANGED aliasNameToWebSocket

\* Client.unsubscribe(handle): closeWebSocketFor(handle).
unsubscribe(h) ==
    /\ UNCHANGED pureVars
    /\ LET r == closeWebSocketFor(sockets, aliasNameToWebSocket, h)
       IN /\ sockets' = r.sockets
          /\ aliasNameToWebSocket' = r.map
          /\ thrown' = r.thrown
    /\ lastOp' = Op("unsubscribe", h, aliasNameToWebSocket[h], 0, NoFrame)
    /\ emitted' = <<>>
    /\ unsubscribedWhileConnecting' =
          [unsubscribedWhileConnecting EXCEPT
              ![h] = @ \/ (~hasOwnProperty(aliasNameToWebSocket, h)
                           /\ InFlight(sockets, h) # {})]
    /\ closedSince' =
          [closedSince EXCEPT
              ![h] = @ \/ aliasNameToWebSocket[h] # NoSocket \/ InFlight(sockets, h) # {}]
    /\ UNCHANGED calls

\* The handshake of socket s succeeds: the browser fires open.
SocketOpen(s) ==
    /\ UNCHANGED pureVars
    /\ sockets[s].readyState = "CONNECTING"
    /\ sockets' = [sockets EXCEPT ![s].readyState = "OPEN", ![s].opened = TRUE]
    /\ aliasNameToWebSocket' = onOpenMap(aliasNameToWebSocket, sockets[s].aliasName, s)
    /\ calls' = settle(calls, s, "resolved")
    /\ lastOp' = Op("open", sockets[s].aliasName, s, 0, NoFrame)
    /\ UNCHANGED <<unsubscribedWhileConnecting, closedSince>>
    /\ emitted' = <<>>
    /\ thrown' = "none"

\* Mutant: after a failed handshake the endpoint constructs the next socket
\* for the handle itself.
SocketError_retries(s) ==
    /\ UNCHANGED pureVars
    /\ \/ sockets[s].readyState = "CONNECTING"
       \/ sockets[s].readyState = "CLOSING" /\ ~sockets[s].opened
    /\ sockets' = Append([sockets EXCEPT ![s].readyState = "CLOSED"],
                         NewWebSocket(sockets[s].aliasName))
    /\ calls' = settle(calls, s, "rejected")
    /\ aliasNameToWebSocket' = onCloseMap(aliasNameToWebSocket, sockets[s].aliasName)
    /\ lastOp' = Op("error", sockets[s].aliasName, s, 0, NoFrame)
    /\ UNCHANGED <<unsubscribedWhileConnecting, closedSince>>
    /\ emitted' = <<>>
    /\ thrown' = "none"

\* The handshake of socket s fails, or the attempt was cancelled by close():
\* the browser fires error and then close.
SocketError(s) ==
    /\ UNCHANGED pureVars
    /\ \/ sockets[s].readyState = "CONNECTING"
       \/ sockets[s].readyState = "CLOSING" /\ ~sockets[s].opened
    /\ sockets' = [sockets EXCEPT ![s].readyState = "CLOSED"]
    /\ calls' = settle(calls, s, "rejected")
    /\ aliasNameToWebSocket' = onCloseMap(aliasNameToWebSocket, sockets[s].aliasName)
    /\ lastOp' = Op("error", sockets[s].aliasName, s, 0, NoFrame)
    /\ UNCHANGED <<unsubscribedWhileConnecting, closedSince>>
    /\ emitted' = <<>>
    /\ thrown' = "none"

\* An open socket is closed by the server or the network drops: the browser
\* fires close (after an error event, whose reject finds the promise settled).
SocketRemoteClose(s) ==
    /\ UNCHANGED pureVars
    /\ sockets[s].readyState = "OPEN"
    /\ sockets' = [sockets EXCEPT ![s].readyState = "CLOSED", ![s].dropped = TRUE]
    /\ calls' = settle(calls, s, "rejected")
    /\ aliasNameToWebSocket' = onCloseMap(aliasNameToWebSocket, sockets[s].aliasName)
    /\ lastOp' = Op("remoteclose", sockets[s].aliasName, s, 0, NoFrame)
    /\ UNCHANGED unsubscribedWhileConnecting
    /\ closedSince' = [closedSince EXCEPT ![sockets[s].aliasName] = TRUE]
    /\ emitted' = <<>>
    /\ thrown' = "none"

\* The closing handshake that close() started on an open socket completes: the
\* browser fires close.
SocketClosed(s) ==
    /\ UNCHANGED pureVars
    /\ sockets[s].readyState = "CLOSING" /\ sockets[s].opened
    /\ sockets' = [sockets EXCEPT ![s].readyState = "CLOSED"]
    /\ aliasNameToWebSocket' = onCloseMap(aliasNameToWebSocket, sockets[s].aliasName)
    /\ lastOp' = Op("closed", sockets[s].aliasName, s, 0, NoFrame)
    /\ UNCHANGED <<unsubscribedWhileConnecting, closedSince>>
    /\ emitted' = <<>>
    /\ thrown' = "none"
    /\ UNCHANGED calls

\* A frame arrives on an open socket: the browser fires message.
SocketMessage(s, f) ==
    /\ UNCHANGED pureVars
    /\ sockets[s].readyState = "OPEN"
    /\ LET r == onMessage(f, sockets[s].aliasName)
       IN /\ emitted' = r.emitted
          /\ clientEvents' = redirectAll(r.emitted)
          /\ thrown' = r.thrown
    /\ lastOp' = Op("message", sockets[s].aliasName, s, 0, f)
    /\ UNCHANGED <<aliasNameToWebSocket, sockets, calls, unsubscribedWhileConnecting, closedSince>>
    /\ UNCHANGED sessionVars

\* The events a message listener can hand to dispatchEvent of the endpoint:
\* one of the notifications about a message, or the authorisation error.
EndpointEvents(h) ==
    {CustomEvent(t, "messageId", "m1", "handle", h) :
        t \in {"message", "messageupdate", "messagedeletion", "messagedelete"}}
    \cup {CustomEvent("autherror", "message", "denied", "handle", h)}

\* this.dispatchEvent(e) on the endpoint, from the message listener of the open
\* socket s: the listeners the Client added run before dispatchEvent returns.
EndpointDispatch(s, e) ==
    /\ sockets[s].readyState = "OPEN"
    /\ emitted' = <<e>>
    /\ clientEvents' = redirectAll(<<e>>)
    /\ thrown' = "none"
    /\ lastOp' = Op("dispatch", sockets[s].aliasName, s, 0, NoFrame)
    /\ UNCHANGED <<aliasNameToWebSocket, sockets, calls, unsubscribedWhileConnecting, closedSince>>
    /\ UNCHANGED sessionVars
    /\ UNCHANGED pureVars

\* A step of the endpoint in which the Client does nothing.
NoClientStep ==
    /\ clientEvents' = <<>>
    /\ sessionOp' = NoSessionOp
    /\ UNCHANGED <<account, auth, loggedOut>>

Next ==
    \/ \E h \in Handles : subscribe(h) /\ NoClientStep
    \/ \E h \in Handles : unsubscribe(h) /\ NoClientStep
    \/ \E s \in SocketIds : SocketOpen(s) /\ NoClientStep
    \/ \E s \in SocketIds : SocketError(s) /\ NoClientStep
    \/ \E s \in SocketIds : SocketRemoteClose(s) /\ NoClientStep
    \/ \E s \in SocketIds : SocketClosed(s) /\ NoClientStep

\* The life cycle of the connections: subscribe, unsubscribe, socket events.
Spec == Init /\ [][Next]_vars

\* The life cycle together with the frames that arrive on open sockets.
NextFrames ==
    \/ Next /\ Len(calls') <= MaxFrameCalls
    \/ \E s \in SocketIds, f \in Frames : SocketMessage(s, f)

SpecFrames == Init /\ [][NextFrames]_vars

\* The life cycle together with the events that are dispatched on the endpoint,
\* whatever listener body hands them to dispatchEvent.
NextRedirect ==
    \/ Next /\ Len(calls') <= MaxFrameCalls
    \/ \E s \in SocketIds : \E e \in EndpointEvents(sockets[s].aliasName) : EndpointDispatch(s, e)

SpecRedirect == Init /\ [][NextRedirect]_vars

\* ---- login and logout ------------------------------------------------------
\* new CustomEvent("login", {detail: {account: this.account}}) and
\* new CustomEvent("logout").
LoginEvent(acct) == CustomEvent("login", "account", acct, "undefined", "undefined")

LogoutEvent == CustomEvent("logout", "undefined", "undefined", "undefined", "undefined")

\* Mutant: #postLogin dispatches the login event before it assigns this.account.
postLogin_dispatchesFirst(current, acct) ==
    [account |-> acct, accountAtDispatch |-> current, events |-> <<LoginEvent(current)>>]

\* Client.#postLogin(account), apart from its call of subscribe: this.account
\* is assigned, and then the event is built from this.account and dispatched.
postLogin(current, acct) ==
    LET assigned == acct
    IN [account |-> assigned, accountAtDispatch |-> assigned, events |-> <<LoginEvent(assigned)>>]

\* A step of the Client that touches no socket.
NoEndpointStep(name) ==
    /\ lastOp' = Op(name, "none", NoSocket, 0, NoFrame)
    /\ emitted' = <<>>
    /\ UNCHANGED <<aliasNameToWebSocket, sockets, calls, unsubscribedWhileConnecting, closedSince>>
    /\ UNCHANGED pureVars

\* Client.login(email, password) up to its await: AuthEndpoint.login sends the
\* request.
login ==
    /\ auth.login < MaxPending
    /\ Len(calls) + auth.login < MaxLogins
    /\ auth' = [auth EXCEPT !.login = @ + 1]
    /\ NoEndpointStep("login")
    /\ thrown' = "none"
    /\ clientEvents' = <<>>
    /\ sessionOp' = NoSessionOp
    /\ UNCHANGED <<account, loggedOut>>

\* The authentication request succeeds and AuthEndpoint.login returns the
\* account with its handle: login goes on with #postLogin, which assigns the
\* account, calls subscribe (not awaited; it runs up to the construction of
\* the socket) and dispatches the login event.
LoginSucceeded(h) ==
    /\ auth.login > 0
    /\ auth' = [auth EXCEPT !.login = @ - 1]
    /\ LET r == postLogin(account, Account(h))
       IN /\ account' = r.account
          /\ subscribe(r.account.handle)
          /\ clientEvents' = r.events
          /\ sessionOp' = SessionOp("login", Account(h), account, r.accountAtDispatch)
    /\ UNCHANGED loggedOut

\* Mutant: the failure of the authentication request is swallowed and login goes
\* on with #postLogin(undefined).
LoginFailed_runsPostLogin ==
    /\ auth.login > 0
    /\ auth' = [auth EXCEPT !.login = @ - 1]
    /\ NoEndpointStep("loginFailed")
    /\ thrown' = "none"
    /\ account' = NoAccount
    /\ clientEvents' = <<LoginEvent(NoAccount)>>
    /\ sessionOp' = NoSessionOp
    /\ UNCHANGED loggedOut

\* The authentication request fails: the promise of login rejects.
LoginFailed ==
    /\ auth.login > 0
    /\ auth' = [auth EXCEPT !.login = @ - 1]
    /\ NoEndpointStep("loginFailed")
    /\ thrown' = "Error"
    /\ clientEvents' = <<>>
    /\ sessionOp' = NoSessionOp
    /\ UNCHANGED <<account, loggedOut>>

\* Client.logout() up to its await: AuthEndpoint.logout sends the request.
logout ==
    /\ auth.logout < MaxPending
    /\ auth' = [auth EXCEPT !.logout = @ + 1]
    /\ NoEndpointStep("logout")
    /\ thrown' = "none"
    /\ clientEvents' = <<>>
    /\ sessionOp' = NoSessionOp
    /\ UNCHANGED <<account, loggedOut>>

\* The logout request succeeds: logout goes on with
\* this.unsubscribe(this.account.handle), which throws if this.account is
\* undefined, then clears the account and dispatches the logout event.
LogoutSucceeded ==
    /\ auth.logout > 0
    /\ auth' = [auth EXCEPT !.logout = @ - 1]
    /\ IF account = NoAccount
       THEN /\ NoEndpointStep("logoutThrew")
            /\ thrown' = "TypeError"
            /\ clientEvents' = <<>>
            /\ UNCHANGED <<account, loggedOut>>
       ELSE /\ unsubscribe(account.handle)
            /\ account' = NoAccount
            /\ loggedOut' = account.handle
            /\ clientEvents' = <<LogoutEvent>>
    /\ sessionOp' = SessionOp("logout", NoAccount, account, account')

\* Mutant: the failure of the logout request is swallowed, the account is
\* cleared and the logout event dispatched.
LogoutFailed_clearsSession ==
    /\ auth.logout > 0
    /\ auth' = [auth EXCEPT !.logout = @ - 1]
    /\ NoEndpointStep("logoutFailed")
    /\ thrown' = "none"
    /\ account' = NoAccount
    /\ clientEvents' = <<LogoutEvent>>
    /\ sessionOp' = NoSessionOp
    /\ UNCHANGED loggedOut

\* The logout request fails: the promise of logout rejects.
LogoutFailed ==
    /\ auth.logout > 0
    /\ auth' = [auth EXCEPT !.logout = @ - 1]
    /\ NoEndpointStep("logoutFailed")
    /\ thrown' = "Error"
    /\ clientEvents' = <<>>
    /\ sessionOp' = NoSessionOp
    /\ UNCHANGED <<account, loggedOut>>

\* The session: login and logout, and the events of the sockets they open.
NextSession ==
    \/ login
    \/ \E h \in Handles : LoginSucceeded(h)
    \/ LoginFailed
    \/ logout
    \/ LogoutSucceeded
    \/ LogoutFailed
    \/ \E s \in SocketIds : SocketOpen(s) /\ NoClientStep
    \/ \E s \in SocketIds : SocketError(s) /\ NoClientStep
    \/ \E s \in SocketIds : SocketRemoteClose(s) /\ NoClientStep
    \/ \E s \in SocketIds : SocketClosed(s) /\ NoClientStep

SpecSession == Init /\ [][NextSession]_vars

\* ---- Client.getMessages ------------------------------------------------------
\* The handles a query and a message name.
Parties == {"A", "B", "C"}

\* The sequences over S of length at most n.
SeqsUpTo(S, n) == UNION {[1..k -> S] : k \in 0..n}

\* The elements of an array.
Range(arr) == {arr[i] : i \in 1..Len(arr)}

\* unique(arr) is imported from util.js, which does not define it among the
\* sources; it is taken as the array of the distinct elements of arr, each at
\* its first position.
RECURSIVE unique(_)
unique(arr) ==
    IF arr = <<>>
    THEN <<>>
    ELSE LET front == unique(SubSeq(arr, 1, Len(arr) - 1))
             last == arr[Len(arr)]
         IN IF last \in Range(front) THEN front ELSE Append(front, last)

\* intersection(arr1, arr2): new Set([...new Set(arr1)].filter(x => new Set(arr2).has(x)))
intersection(arr1, arr2) == {x \in Range(arr1) : x \in Range(arr2)}

\* Mutant: the deprecated exact flag is ignored.
matchPolicy_ignoresExact(match, exact) ==
    IF match = "undefined" THEN "any" ELSE match

\* The match policy after the deprecated exact flag and the default are applied:
\* if (exact !== undefined && match === undefined) match = exact ? "exact" : "any";
\* match = match || "any".
matchPolicy(match, exact) ==
    LET m == IF exact # "undefined" /\ match = "undefined"
             THEN (IF exact = "true" THEN "exact" ELSE "any")
             ELSE match
    IN IF m = "undefined" THEN "any" ELSE m

\* Mutant: the validation of the senders never rejects.
rejectsSenders_never(from, match) == FALSE

\* if (from.length > 1 && match !== "any") throw new Error(...)
rejectsSenders(from, match) == Len(from) > 1 /\ match # "any"

\* Mutant: the filter on recipients does not compare the lengths for "exact".
keeps_noExactLength(message, from, to, participants, match) ==
    LET sender == message.sender
        recipients == message.recipients
        toIntersection == intersection(recipients, to)
    IN IF Len(from) > 0 /\ sender \notin Range(from) THEN FALSE
       ELSE IF Len(to) > 0 /\ Cardinality(toIntersection) = 0 THEN FALSE
       ELSE IF Len(to) > 0 /\ match # "any" /\ Cardinality(toIntersection) < Len(to) THEN FALSE
       ELSE IF Len(participants) > 0 /\ match # "any"
            THEN Cardinality(intersection(unique(<<sender>> \o recipients), participants))
                     = Len(participants)
       ELSE TRUE

\* The callback of messages.filter: does the message pass the filters, given
\* the normalised from, to and participants and the match policy.
keeps(message, from, to, participants, match) ==
    LET sender == message.sender
        recipients == message.recipients
        toIntersection == intersection(recipients, to)
    IN IF Len(from) > 0 /\ sender \notin Range(from) THEN FALSE
       ELSE IF Len(to) > 0 /\ Cardinality(toIntersection) = 0 THEN FALSE
       ELSE IF Len(to) > 0 /\ match # "any" /\ Cardinality(toIntersection) < Len(to) THEN FALSE
       ELSE IF Len(to) > 0 /\ match = "exact" /\ Len(to) # Len(recipients) THEN FALSE
       ELSE IF Len(participants) > 0 /\ match # "any"
            THEN Cardinality(intersection(unique(<<sender>> \o recipients), participants))
                     = Len(participants)
       ELSE TRUE

\* The arguments of one call.
Query(from, to, participants, match, exact) ==
    [phase |-> "called", from |-> from, to |-> to, participants |-> participants,
     match |-> match, exact |-> exact, requests |-> 0, fetched |-> <<>>, result |-> <<>>]

Matches == {"undefined", "any", "all", "exact"}

Exacts == {"undefined", "true", "false"}

\* The lists of handles a query is made of, duplicates included.
Lists == SeqsUpTo(Parties, MaxLen)

ShortLists == SeqsUpTo(Parties, 1)

\* The calls of the model: one criterion with lists up to MaxLen, or the three
\* criteria together with lists of at most one handle.
Queries ==
    {Query(f, <<>>, <<>>, m, e) : f \in Lists, m \in Matches, e \in Exacts}
    \cup {Query(<<>>, t, <<>>, m, e) : t \in Lists, m \in Matches, e \in Exacts}
    \cup {Query(<<>>, <<>>, p, m, e) : p \in Lists, m \in Matches, e \in Exacts}
    \cup {Query(f, t, p, m, "undefined") : f \in ShortLists, t \in ShortLists,
                                           p \in ShortLists, m \in Matches}

\* A message the server lists: its sender and its recipients, at least one and
\* each once.
Message(sender, recipients) == [sender |-> sender, recipients |-> recipients]

RecipientLists ==
    {r \in SeqsUpTo(Parties, Cardinality(Parties)) :
        Len(r) > 0 /\ Cardinality(Range(r)) = Len(r)}

FetchedMessages == {Message(s, r) : s \in Parties, r \in RecipientLists}

\* Three messages of a sender that no query names.
M1 == Message("S", <<"A", "B">>)

M2 == Message("S", <<"A">>)

M3 == Message("S", <<"A", "B", "C">>)

\* The lists the server answers with: nothing, any one message, or M1, M2, M3.
FetchedLists == {<<>>, <<M1, M2, M3>>} \cup {<<m>> : m \in FetchedMessages}

\* A step of getMessages: it touches neither the sockets nor the session.
GetMessagesStep(name) ==
    /\ lastOp' = Op(name, "none", NoSocket, 0, NoFrame)
    /\ emitted' = <<>>
    /\ clientEvents' = <<>>
    /\ UNCHANGED <<aliasNameToWebSocket, sockets, calls, unsubscribedWhileConnecting, closedSince>>
    /\ UNCHANGED <<sessionVars, grouping, http>>

\* getMessages up to its await: the arrays are normalised, the senders are
\* validated, and getMessagesForAlias(this.account.handle, ...) sends the
\* listing request; this.account.handle throws if nobody is logged in.
GetMessagesCall ==
    /\ gm.phase = "called"
    /\ GetMessagesStep("getMessages")
    /\ LET from == unique(gm.from)
           match == matchPolicy(gm.match, gm.exact)
       IN IF rejectsSenders(from, match)
          THEN /\ gm' = [gm EXCEPT !.phase = "threw"]
               /\ thrown' = "Error"
          ELSE IF account = NoAccount
          THEN /\ gm' = [gm EXCEPT !.phase = "threw"]
               /\ thrown' = "TypeError"
          ELSE /\ gm' = [gm EXCEPT !.phase = "requested", !.requests = @ + 1]
               /\ thrown' = "none"

\* The listing request succeeds: the messages are filtered and returned.
GetMessagesResponse(fetched) ==
    /\ gm.phase = "requested"
    /\ GetMessagesStep("getMessagesResponse")
    /\ thrown' = "none"
    /\ LET from == unique(gm.from)
           to == unique(gm.to)
           participants == unique(gm.participants)
           match == matchPolicy(gm.match, gm.exact)
       IN gm' = [gm EXCEPT !.phase = "returned",
                           !.fetched = fetched,
                           !.result = SelectSeq(fetched,
                               LAMBDA message : keeps(message, from, to, participants, match))]

\* The listing request fails: the promise of getMessages rejects.
GetMessagesFailed ==
    /\ gm.phase = "requested"
    /\ GetMessagesStep("getMessagesFailed")
    /\ thrown' = "Error"
    /\ gm' = [gm EXCEPT !.phase = "failed"]

\* One call of getMessages, by a Client that is logged in or not.
InitMessages ==
    /\ EndpointInit
    /\ clientEvents = <<>>
    /\ account \in {NoAccount, Account("alice")}
    /\ auth = [login |-> 0, logout |-> 0]
    /\ sessionOp = NoSessionOp
    /\ loggedOut = "none"
    /\ gm \in Queries
    /\ grouping = NoGrouping
    /\ http = NoRequest

NextMessages ==
    \/ GetMessagesCall
    \/ \E fetched \in FetchedLists : GetMessagesResponse(fetched)
    \/ GetMessagesFailed

SpecMessages == InitMessages /\ [][NextMessages]_vars

\* ---- Client.groupMessagesByUniqueRecipients -----------------------------------
\* An id is a string, here the sequence of its characters, each character a
\* number in the order of the code units; 1 is the letter a and 2 the letter b.
\* The ids of the identities: "a", "b", "aa", "ab".
Ids == {<<1>>, <<2>>, <<1, 1>>, <<1, 2>>}

\* The order Array.prototype.sort() puts strings in: by code units, a proper
\* prefix first.
RECURSIVE StrLess(_, _)
StrLess(x, y) ==
    IF x = <<>> THEN y # <<>>
    ELSE IF y = <<>> THEN FALSE
    ELSE IF Head(x) < Head(y) THEN TRUE
    ELSE IF Head(x) > Head(y) THEN FALSE
    ELSE StrLess(Tail(x), Tail(y))

\* [...new Set(ids)].sort(): the distinct ids in ascending order.
RECURSIVE sort(_)
sort(ids) ==
    IF ids = {}
    THEN <<>>
    ELSE LET least == CHOOSE x \in ids : \A y \in ids \ {x} : StrLess(x, y)
         IN <<least>> \o sort(ids \ {least})

\* .join(""): the strings one after the other with nothing between them.
RECURSIVE join(_)
join(strs) ==
    IF strs = <<>> THEN <<>> ELSE Head(strs) \o join(Tail(strs))

\* new Set([v.sender.id, ...v.recipients.map(c => c.id)])
idSet(v) == {v.sender} \cup {v.recipients[i] : i \in 1..Len(v.recipients)}

\* k: the key of message v in the object reduce fills.
keyOf(v) == join(sort(idSet(v)))

\* messages.reduce((r, v) => ((r[k] || (r[k] = [])).push(v), r), {}): the
\* properties of r in the order they were created, each with its array.
RECURSIVE reduce(_)
reduce(messages) ==
    IF messages = <<>>
    THEN <<>>
    ELSE LET r == reduce(SubSeq(messages, 1, Len(messages) - 1))
             v == messages[Len(messages)]
             k == keyOf(v)
             at == {i \in 1..Len(r) : r[i].key = k}
         IN IF at = {}
            THEN Append(r, [key |-> k, messages |-> <<v>>])
            ELSE [i \in 1..Len(r) |->
                     IF i \in at THEN [r[i] EXCEPT !.messages = Append(@, v)] ELSE r[i]]

\* Object.values(r): the arrays, in the order of creation of their keys (the
\* keys are made of letters, none is an array index).
groupMessagesByUniqueRecipients(messages) ==
    LET r == reduce(messages)
    IN [i \in 1..Len(r) |-> r[i].messages]

\* A message of the argument: who sent it and to whom (ids of identities); its
\* own id is its position in the argument.
Shapes ==
    {[sender |-> s, recipients |-> r] :
        s \in Ids,
        r \in {q \in SeqsUpTo(Ids, Cardinality(Ids)) :
                  Len(q) > 0 /\ Cardinality(Range(q)) = Len(q)}}

WithIds(shapes) ==
    [i \in 1..Len(shapes) |->
        [id |-> i, sender |-> shapes[i].sender, recipients |-> shapes[i].recipients]]

\* {sender: A, recipients: [B]}, {sender: B, recipients: [A]},
\* {sender: A, recipients: [C]} with the ids "a", "b", "aa" of A, B, C.
ExampleShapes ==
    << [sender |-> <<1>>, recipients |-> << <<2>> >>],
       [sender |-> <<2>>, recipients |-> << <<1>> >>],
       [sender |-> <<1>>, recipients |-> << <<1, 1>> >>] >>

GroupingArguments == SeqsUpTo(Shapes, MaxMessages) \cup {ExampleShapes}

\* The call: a pure function of its argument.
GroupMessages ==
    /\ grouping.phase = "called"
    /\ grouping' = [grouping EXCEPT !.phase = "returned",
                                    !.groups = groupMessagesByUniqueRecipients(grouping.messages)]
    /\ lastOp' = Op("groupMessagesByUniqueRecipients", "none", NoSocket, 0, NoFrame)
    /\ emitted' = <<>>
    /\ clientEvents' = <<>>
    /\ thrown' = "none"
    /\ UNCHANGED <<aliasNameToWebSocket, sockets, calls, unsubscribedWhileConnecting, closedSince>>
    /\ UNCHANGED <<sessionVars, gm, http>>

InitGrouping ==
    /\ EndpointInit
    /\ ClientInit
    /\ http = NoRequest
    /\ gm = NoGetMessages
    /\ grouping \in {[phase |-> "called", messages |-> WithIds(shapes), groups |-> <<>>] :
                        shapes \in GroupingArguments}

NextGrouping == GroupMessages

SpecGrouping == InitGrouping /\ [][NextGrouping]_vars

\* A step of request: it touches nothing of the Client.
RequestStep(name) ==
    /\ lastOp' = Op(name, "none", NoSocket, 0, NoFrame)
    /\ emitted' = <<>>
    /\ clientEvents' = <<>>
    /\ thrown' = "none"
    /\ UNCHANGED <<aliasNameToWebSocket, sockets, calls, unsubscribedWhileConnecting, closedSince>>
    /\ UNCHANGED <<sessionVars, gm, grouping>>

\* request(url, options) up to the promise it returns: fetch is called once.
request ==
    /\ http.phase = "called"
    /\ RequestStep("request")
    /\ http' = [http EXCEPT !.phase = "fetching", !.fetches = @ + 1]

\* fetch fulfils with a response: .then(getErrorFromResponse) and, if that
\* fulfils, .then(response => response[responseType]()).
FetchResponds(response) ==
    /\ http.phase = "fetching"
    /\ RequestStep("response")
    /\ LET checked == getErrorFromResponse(response)
       IN http' = [http EXCEPT !.phase = "settled",
                               !.response = response,
                               !.checked = checked,
                               !.outcome = IF checked.state = "resolved"
                                           THEN read(response, http.responseType)
                                           ELSE checked]

\* fetch rejects (no response): both then-callbacks are skipped.
FetchFails ==
    /\ http.phase = "fetching"
    /\ RequestStep("fetchFailed")
    /\ http' = [http EXCEPT !.phase = "settled",
                            !.outcome = Outcome("rejected", "TypeError", "", Body(FALSE, "undefined"))]

InitRequest ==
    /\ EndpointInit
    /\ ClientInit
    /\ gm = NoGetMessages
    /\ grouping = NoGrouping
    /\ http \in Requests

NextRequest ==
    \/ request
    \/ \E response \in Responses : FetchResponds(response)
    \/ FetchFails

SpecRequest == InitRequest /\ [][NextRequest]_vars

\* ---- the life cycle with every attempt finishing -----------------------------
\* The subscribe calls of the behaviours that are checked for progress.
MaxLiveCalls == 2

NextLive == Next /\ Len(calls') <= MaxLiveCalls

\* Every connection attempt eventually opens or fails: the browser fires open
\* or error on a socket that is CONNECTING, and error on one whose attempt was
\* cancelled by close().
AttemptsFinish ==
    \A s \in 1..MaxLiveCalls :
        WF_vars(s \in SocketIds /\ (SocketOpen(s) \/ SocketError(s)) /\ NoClientStep)

SpecLive == Init /\ [][NextLive]_vars /\ AttemptsFinish

\* ---- well-formedness of the model ------------------------------------------
TypeOK ==
    /\ aliasNameToWebSocket \in [Handles -> SocketIds \cup {NoSocket}]
    /\ \A s \in SocketIds :
        /\ sockets[s].aliasName \in Handles
        /\ sockets[s].readyState \in {"CONNECTING", "OPEN", "CLOSING", "CLOSED"}
    /\ \A c \in CallIds :
        /\ calls[c].socket \in SocketIds
        /\ calls[c].state \in {"pending", "resolved", "rejected"}
    /\ thrown \in {"none", "SyntaxError", "ReferenceError", "TypeError", "Error"}
    /\ loggedOut \in Handles \cup {"none"}
    /\ closedSince \in [Handles -> BOOLEAN]

\* A stored socket is an open socket of that handle.
StoredIsOpen ==
    \A h \in Handles :
        hasOwnProperty(aliasNameToWebSocket, h) =>
            /\ sockets[aliasNameToWebSocket[h]].aliasName = h
            /\ sockets[aliasNameToWebSocket[h]].readyState = "OPEN"

\* ---- vocabulary of the claims ----------------------------------------------
\* A live connection: connecting or open.
Live(s) == sockets[s].readyState \in {"CONNECTING", "OPEN"}

SocketsOf(h) == {s \in SocketIds : sockets[s].aliasName = h}

LiveSocketsOf(h) == {s \in SocketsOf(h) : Live(s)}

\* An attempt that has not finished: connecting, or cancelled and not yet closed.
Unfinished(s) ==
    \/ sockets[s].readyState = "CONNECTING"
    \/ sockets[s].readyState = "CLOSING" /\ ~sockets[s].opened

\* ---- C1 --------------------------------------------------------------------
\* C1: for every handle, in every reachable state, at most one connection for
\* the handle is live (connecting or open).
C1_AtMostOneLive ==
    \A h \in Handles : Cardinality(LiveSocketsOf(h)) <= 1

\* ---- C2 --------------------------------------------------------------------
\* C2: a subscribe call issued while an earlier call for the same handle is
\* pending waits on the connection attempt of that call and gets its outcome:
\* the two are pending together, resolved together or rejected together.
C2_ConcurrentCallsShareOneAttempt ==
    \A c \in CallIds :
        /\ calls[c].socket = calls[calls[c].first].socket
        /\ calls[c].state = calls[calls[c].first].state

\* ---- C3 --------------------------------------------------------------------
\* C3: unsubscribe(handle) on a handle that is UNSUBSCRIBED (nothing stored,
\* nothing in flight) throws nothing and changes neither the map nor any
\* socket.
C3_UnsubscribeWhenUnsubscribedIsNoop ==
    [][\A h \in Handles :
          (lastOp'.op = "unsubscribe" /\ lastOp'.handle = h
           /\ ~hasOwnProperty(aliasNameToWebSocket, h) /\ InFlight(sockets, h) = {})
          => /\ thrown' = "none"
             /\ aliasNameToWebSocket' = aliasNameToWebSocket
             /\ sockets' = sockets]_vars

\* Reached: unsubscribe was just called on a handle whose connection had
\* already closed, with nothing stored and nothing in flight.
C3_Witness ==
    /\ lastOp.op = "unsubscribe"
    /\ lastOp.socket = NoSocket
    /\ ~unsubscribedWhileConnecting[lastOp.handle]
    /\ \E s \in SocketsOf(lastOp.handle) : sockets[s].readyState = "CLOSED" /\ sockets[s].opened
    /\ \A s \in SocketsOf(lastOp.handle) : sockets[s].readyState = "CLOSED"

\* ---- C4 --------------------------------------------------------------------
\* C4: unsubscribe(handle) on a handle that is OPEN (its connection is stored)
\* starts the close of that connection and leaves no entry for the handle;
\* when the close completes the connection is CLOSED and is not stored.
C4_UnsubscribeWhenOpenCloses ==
    [][/\ \A h \in Handles :
            (lastOp'.op = "unsubscribe" /\ lastOp'.handle = h
             /\ hasOwnProperty(aliasNameToWebSocket, h))
            => /\ ~hasOwnProperty(aliasNameToWebSocket', h)
               /\ sockets'[aliasNameToWebSocket[h]].readyState = "CLOSING"
               /\ thrown' = "none"
       /\ lastOp'.op = "closed"
            => /\ sockets'[lastOp'.socket].readyState = "CLOSED"
               /\ aliasNameToWebSocket'[lastOp'.handle] # lastOp'.socket]_vars

\* Reached: the connection that unsubscribe closed has finished closing and
\* the handle has no entry.
C4_Witness ==
    /\ lastOp.op = "closed"
    /\ sockets[lastOp.socket].readyState = "CLOSED"
    /\ ~sockets[lastOp.socket].dropped
    /\ ~hasOwnProperty(aliasNameToWebSocket, lastOp.handle)

\* ---- C5 --------------------------------------------------------------------
\* C5: after unsubscribe(handle) found the handle CONNECTING, once every
\* attempt for the handle has finished and no subscribe(handle) followed, no
\* connection for the handle is open or stored.
C5_NoDanglingAfterUnsubscribeWhileConnecting ==
    \A h \in Handles :
        (unsubscribedWhileConnecting[h] /\ \A s \in SocketsOf(h) : ~Unfinished(s))
        => /\ ~hasOwnProperty(aliasNameToWebSocket, h)
           /\ \A s \in SocketsOf(h) : sockets[s].readyState # "OPEN"

\* ---- C6 --------------------------------------------------------------------
\* C6: when an attempt for a handle succeeds the socket is stored under the
\* handle and no subscribe call for the handle is left pending; and a
\* subscribe call resolves only while an OPEN socket is stored for its handle.
C6_OpenStoresAndResolvesAll ==
    /\ lastOp.op = "open" =>
          /\ aliasNameToWebSocket[lastOp.handle] = lastOp.socket
          /\ \A c \in CallIds : calls[c].handle = lastOp.handle => calls[c].state # "pending"
    /\ (lastOp.op = "subscribe" /\ calls[lastOp.call].state = "resolved") =>
          /\ hasOwnProperty(aliasNameToWebSocket, lastOp.handle)
          /\ sockets[aliasNameToWebSocket[lastOp.handle]].readyState = "OPEN"

\* ---- C7 --------------------------------------------------------------------
\* C7: when the handshake of an attempt for a handle fails, every call that
\* waited on the attempt is rejected, the handle has no entry and no
\* connection for the handle is live.
C7_FailureLeavesUnsubscribed ==
    lastOp.op = "error" =>
        /\ \A c \in CallIds : calls[c].socket = lastOp.socket => calls[c].state = "rejected"
        /\ ~hasOwnProperty(aliasNameToWebSocket, lastOp.handle)
        /\ LiveSocketsOf(lastOp.handle) = {}

\* ---- C8 --------------------------------------------------------------------
\* C8: when an OPEN connection of a handle is closed remotely the entry of the
\* handle is removed, and no step but a subscribe call constructs a socket.
C8_RemoteCloseRemovesEntry ==
    [][/\ lastOp'.op = "remoteclose"
            => /\ ~hasOwnProperty(aliasNameToWebSocket', lastOp'.handle)
               /\ sockets'[lastOp'.socket].readyState = "CLOSED"
       /\ lastOp'.op # "subscribe"
            => /\ Len(sockets') = Len(sockets)
               /\ \A s \in SocketIds : sockets'[s].readyState = "CONNECTING"
                                        => sockets[s].readyState = "CONNECTING"]_vars

\* Reached: a stored open connection was just closed remotely.
C8_Witness ==
    /\ lastOp.op = "remoteclose"
    /\ sockets[lastOp.socket].dropped
    /\ sockets[lastOp.socket].readyState = "CLOSED"
    /\ ~hasOwnProperty(aliasNameToWebSocket, lastOp.handle)

\* ---- C9 --------------------------------------------------------------------
\* C9: a subscribe(H) that follows the remote close of H's connection does not
\* get a closed socket: it constructs a fresh CONNECTING socket and stays
\* pending on it, and when that socket opens it is stored and the call
\* resolves.  No call is ever answered with a socket that is not open.
C9_ReconnectAfterDrop ==
    [][/\ (lastOp.op = "remoteclose" /\ lastOp'.op = "subscribe"
           /\ lastOp'.handle = lastOp.handle)
            => /\ lastOp'.socket = Len(sockets) + 1
               /\ sockets'[lastOp'.socket].readyState = "CONNECTING"
               /\ calls'[lastOp'.call].state = "pending"
       /\ lastOp'.op = "subscribe"
            => sockets'[lastOp'.socket].readyState \in {"CONNECTING", "OPEN"}
       /\ lastOp'.op = "open"
            => /\ aliasNameToWebSocket'[lastOp'.handle] = lastOp'.socket
               /\ \A c \in CallIds : calls[c].socket = lastOp'.socket
                                        => calls'[c].state = "resolved"]_vars

\* Reached: a connection of the handle was dropped, a later subscribe
\* constructed a new socket, and that socket has just opened, is stored, and
\* its call is resolved.
C9_Witness ==
    /\ lastOp.op = "open"
    /\ aliasNameToWebSocket[lastOp.handle] = lastOp.socket
    /\ \E s \in SocketsOf(lastOp.handle) :
          /\ s < lastOp.socket
          /\ sockets[s].dropped
          /\ \A s2 \in SocketsOf(lastOp.handle) : s2 <= s \/ s2 = lastOp.socket
    /\ \E c \in CallIds : calls[c].socket = lastOp.socket /\ calls[c].state = "resolved"

\* ---- C10 -------------------------------------------------------------------
\* The event the frame table prescribes for an inbound frame.
ExpectedEvent(frame, h) ==
    CASE frame.type = "new_message" ->
            CustomEvent("message", "messageId", frame.messageId, "handle", h)
      [] frame.type = "message_update" ->
            CustomEvent("messageupdate", "messageId", frame.messageId, "handle", h)
      [] frame.type = "message_delete" ->
            CustomEvent("messagedeletion", "messageId", frame.messageId, "handle", h)
      [] frame.type = "unauthorized" ->
            CustomEvent("autherror", "message", frame.message, "handle", h)

\* C10: a frame of type new_message, message_update, message_delete or
\* unauthorized on the open connection of handle h makes the endpoint
\* dispatch exactly one event: message, messageupdate, messagedeletion or
\* autherror, with the frame's messageId (message for unauthorized) and
\* handle = h in its detail.
C10_FrameMapping ==
    (lastOp.op = "message" /\ lastOp.frame.parsable
     /\ lastOp.frame.type \in MessageFrameTypes \cup {"unauthorized"})
    => emitted = <<ExpectedEvent(lastOp.frame, lastOp.handle)>>

\* ---- C11 -------------------------------------------------------------------
\* The four notifications the Client re-publishes.
NotificationNames == {"message", "messageupdate", "messagedeletion", "autherror"}

Notifications(evts) == SelectSeq(evts, LAMBDA e : e.type \in NotificationNames)

KnownDiscriminants == {"new_message", "message_update", "message_delete", "unauthorized"}

\* C12: a step that handles a parsed frame of an unknown type dispatches no
\* event on the endpoint or on the Client, throws nothing, and leaves every
\* socket, the map and every call as they were: the socket of the frame stays
\* OPEN and, if it was stored, stored.
C12_UnknownTypeDropped ==
    [][(/\ lastOp'.op = "message"
        /\ lastOp'.frame.parsable
        /\ lastOp'.frame.type \notin KnownDiscriminants)
       => (/\ emitted' = <<>>
           /\ clientEvents' = <<>>
           /\ thrown' = "none"
           /\ sockets' = sockets
           /\ sockets'[lastOp'.socket].readyState = "OPEN"
           /\ aliasNameToWebSocket' = aliasNameToWebSocket
           /\ calls' = calls)]_vars

C12_Witness ==
    /\ lastOp.op = "message"
    /\ lastOp.frame.type = "typing"
    /\ emitted = <<>>
    /\ thrown = "none"
    /\ sockets[lastOp.socket].readyState = "OPEN"
    /\ aliasNameToWebSocket[lastOp.handle] = lastOp.socket

\* ---- C13 -------------------------------------------------------------------
\* C13: after a step that handles a frame whose text cannot be parsed, no
\* event was dispatched, no exception left the listener, and the socket of the
\* frame is OPEN.
C13_MalformedDropped ==
    (lastOp.op = "message" /\ ~lastOp.frame.parsable)
    => (/\ emitted = <<>>
        /\ thrown = "none"
        /\ sockets[lastOp.socket].readyState = "OPEN")

\* ---- C14 -------------------------------------------------------------------
\* C14: a step that handles an unauthorized frame dispatches one autherror
\* event and does nothing else: it throws nothing, settles no call, and leaves
\* every socket and the map as they were.
C14_UnauthorizedOnlyAutherror ==
    [][(lastOp'.op = "message" /\ lastOp'.frame.type = "unauthorized")
       => (/\ Len(emitted') = 1
           /\ emitted'[1].type = "autherror"
           /\ thrown' = "none"
           /\ calls' = calls
           /\ sockets' = sockets
           /\ aliasNameToWebSocket' = aliasNameToWebSocket)]_vars

\* What holds of that step: apart from the exception it changes nothing.
UnauthorizedChangesNothing ==
    [][(lastOp'.op = "message" /\ lastOp'.frame.type = "unauthorized")
       => (/\ calls' = calls
           /\ sockets' = sockets
           /\ aliasNameToWebSocket' = aliasNameToWebSocket)]_vars

\* ---- C15 -------------------------------------------------------------------
\* C15: the step in which a login call gets the account the server returned
\* sets this.account to that account, issues one subscribe call for the handle
\* of that account, and dispatches one event on the Client, the login event
\* carrying that account; when the event is dispatched this.account is already
\* that account.
C15_LoginSetsAccountSubscribesAndAnnounces ==
    [][(sessionOp'.op = "login")
       => (/\ account' = sessionOp'.returned
           /\ Len(calls') = Len(calls) + 1
           /\ calls'[Len(calls')].handle = sessionOp'.returned.handle
           /\ lastOp'.op = "subscribe"
           /\ clientEvents' = <<LoginEvent(sessionOp'.returned)>>
           /\ sessionOp'.accountAtDispatch = sessionOp'.returned)]_vars

C15_Witness ==
    /\ sessionOp.op = "login"
    /\ sessionOp.returned = Account("alice")
    /\ account = Account("alice")
    /\ calls[Len(calls)].handle = "alice"
    /\ Len(clientEvents) = 1

\* ---- C16 -------------------------------------------------------------------
\* C16: after the step in which a logout call of a logged-in Client gets the
\* success of its request, this.account is undefined, one event was dispatched
\* on the Client, the logout event, and no socket of the handle of the account
\* that was logged in is OPEN or stored.
C16_LogoutClearsSessionAndConnection ==
    (sessionOp.op = "logout" /\ sessionOp.previous # NoAccount)
    => (/\ account = NoAccount
        /\ clientEvents = <<LogoutEvent>>
        /\ aliasNameToWebSocket[sessionOp.previous.handle] = NoSocket
        /\ \A s \in SocketsOf(sessionOp.previous.handle) : sockets[s].readyState # "OPEN")

\* What holds of that step: the session is cleared, the event dispatched, the
\* stored socket closed and its entry dropped.
LogoutClearsSession ==
    (sessionOp.op = "logout" /\ sessionOp.previous # NoAccount)
    => (/\ account = NoAccount
        /\ clientEvents = <<LogoutEvent>>
        /\ lastOp.op = "unsubscribe"
        /\ lastOp.handle = sessionOp.previous.handle
        /\ aliasNameToWebSocket[sessionOp.previous.handle] = NoSocket)

\* ---- C17 -------------------------------------------------------------------
\* C17: once a getMessages call with match "exact" and more than one sender in
\* from has run up to its await, it has thrown the validation error and no
\* listing request was sent.
C17_ExactWithSendersRejected ==
    (gm.phase \notin {"idle", "called"} /\ gm.match = "exact" /\ Cardinality(Range(gm.from)) > 1)
    => (/\ gm.phase = "threw"
        /\ thrown = "Error"
        /\ gm.requests = 0)

C17_Witness ==
    /\ gm.phase = "threw"
    /\ thrown = "Error"
    /\ gm.from = <<"A", "B">>
    /\ gm.match = "exact"
    /\ gm.requests = 0

\* ---- C18 -------------------------------------------------------------------
\* The match policy a query asks for: match, else the deprecated exact flag,
\* else "any".
AskedPolicy ==
    IF gm.match # "undefined" THEN gm.match
    ELSE IF gm.exact = "true" THEN "exact" ELSE "any"

\* The policy on two sets of handles.
Satisfies(have, asked, policy) ==
    CASE policy = "any" -> have \cap asked # {}
      [] policy = "all" -> asked \subseteq have
      [] policy = "exact" -> have = asked

\* C18: a query that names recipients gets only messages whose recipient set
\* satisfies the policy against to, and, if it names neither senders nor
\* participants, all of them, in the order they were fetched; for M1, M2, M3
\* and to = [A, B]: exact gives M1, all gives M1 and M3, any gives all three.
C18_ToFilter ==
    (gm.phase = "returned" /\ gm.to # <<>>)
    => (/\ \A i \in 1..Len(gm.result) :
              Satisfies(Range(gm.result[i].recipients), Range(gm.to), AskedPolicy)
        /\ (gm.from = <<>> /\ gm.participants = <<>>)
              => gm.result = SelectSeq(gm.fetched,
                     LAMBDA m : Satisfies(Range(m.recipients), Range(gm.to), AskedPolicy))
        /\ (gm.from = <<>> /\ gm.participants = <<>>
            /\ gm.fetched = <<M1, M2, M3>> /\ gm.to = <<"A", "B">>)
              => gm.result = (CASE AskedPolicy = "exact" -> <<M1>>
                                [] AskedPolicy = "all" -> <<M1, M3>>
                                [] AskedPolicy = "any" -> <<M1, M2, M3>>))

C18_Witness ==
    /\ gm.phase = "returned"
    /\ gm.to = <<"A", "B">>
    /\ gm.match = "exact"
    /\ gm.fetched = <<M1, M2, M3>>
    /\ gm.result = <<M1>>

\* ---- C19 -------------------------------------------------------------------
\* The parties of a message: its sender and its recipients.
PartiesOf(m) == {m.sender} \cup Range(m.recipients)

\* C19: a query that names participants gets, with "exact", only messages whose
\* parties are the participants and nobody else, and with "all" (and no other
\* criterion) the fetched messages whose parties include every participant.
C19_ParticipantsFilter ==
    (gm.phase = "returned" /\ gm.participants # <<>>)
    => (/\ AskedPolicy = "exact"
              => \A i \in 1..Len(gm.result) :
                     PartiesOf(gm.result[i]) = Range(gm.participants)
        /\ (AskedPolicy = "all" /\ gm.from = <<>> /\ gm.to = <<>>)
              => gm.result = SelectSeq(gm.fetched,
                     LAMBDA m : Range(gm.participants) \subseteq PartiesOf(m)))

\* What holds of the participants filter: "exact" is filtered as "all" is.
ParticipantsAllPresent ==
    (gm.phase = "returned" /\ gm.participants # <<>>
     /\ AskedPolicy # "any" /\ gm.from = <<>> /\ gm.to = <<>>)
    => gm.result = SelectSeq(gm.fetched,
           LAMBDA m : Range(gm.participants) \subseteq PartiesOf(m))

\* ---- C20 -------------------------------------------------------------------
\* The groups in which the message of position i of the argument appears, once
\* for each time it appears.
PlacesOf(i) ==
    {<<g, j>> \in (1..Len(grouping.groups)) \X (1..Len(grouping.messages)) :
        j <= Len(grouping.groups[g]) /\ grouping.groups[g][j].id = i}

GroupOf(i) == CHOOSE g \in 1..Len(grouping.groups) : \E j \in 1..Len(grouping.messages) : <<g, j>> \in PlacesOf(i)

\* C20: every message of the argument is in one group, once; two messages are
\* in the same group exactly if their sets of ids (sender and recipients) are
\* equal; the three messages of the example come back as two groups, the
\* first two messages and the third.
C20_GroupsAreTheIdSets ==
    (grouping.phase = "returned")
    => (/\ \A i \in 1..Len(grouping.messages) : Cardinality(PlacesOf(i)) = 1
        /\ \A i, j \in 1..Len(grouping.messages) :
              (GroupOf(i) = GroupOf(j))
              <=> (idSet(grouping.messages[i]) = idSet(grouping.messages[j]))
        /\ (grouping.messages = WithIds(ExampleShapes))
              => grouping.groups =
                     << SubSeq(grouping.messages, 1, 2), SubSeq(grouping.messages, 3, 3) >>)

\* What holds of the grouping: it is a partition, messages with equal id sets
\* are together, and the example comes out as said.
GroupingPartitions ==
    (grouping.phase = "returned")
    => (/\ \A i \in 1..Len(grouping.messages) : Cardinality(PlacesOf(i)) = 1
        /\ \A i, j \in 1..Len(grouping.messages) :
              (idSet(grouping.messages[i]) = idSet(grouping.messages[j]))
              => (GroupOf(i) = GroupOf(j))
        /\ (grouping.messages = WithIds(ExampleShapes))
              => grouping.groups =
                     << SubSeq(grouping.messages, 1, 2), SubSeq(grouping.messages, 3, 3) >>)

\* ---- C21 -------------------------------------------------------------------
\* An attempt that failed: the socket closed without ever opening.
Failed(s) == sockets[s].readyState = "CLOSED" /\ ~sockets[s].opened

\* C21: a socket is constructed only by a step of subscribe, one at a time; a
\* subscribe call is never answered by a socket whose attempt failed, and a
\* call for a handle that has nothing stored constructs a socket of its own
\* and waits for it.
C21_NoRetryAndFreshAttempt ==
    [][/\ (Len(sockets') # Len(sockets))
             => (lastOp'.op = "subscribe" /\ Len(sockets') = Len(sockets) + 1)
       /\ (lastOp'.op = "subscribe")
             => (/\ ~(calls'[lastOp'.call].socket \in SocketIds
                      /\ Failed(calls'[lastOp'.call].socket))
                 /\ (~hasOwnProperty(aliasNameToWebSocket, lastOp'.handle))
                       => (/\ calls'[lastOp'.call].socket = Len(sockets) + 1
                           /\ sockets'[Len(sockets) + 1].readyState = "CONNECTING"
                           /\ sockets'[Len(sockets) + 1].aliasName = lastOp'.handle
                           /\ calls'[lastOp'.call].state = "pending"))]_vars

C21_Witness ==
    /\ lastOp.op = "subscribe"
    /\ sockets[lastOp.socket].readyState = "CONNECTING"
    /\ calls[lastOp.call].state = "pending"
    /\ \E s \in SocketIds :
          /\ s < lastOp.socket
          /\ sockets[s].aliasName = lastOp.handle
          /\ Failed(s)
          /\ LiveSocketsOf(lastOp.handle) = {lastOp.socket}

\* ---- C23 -------------------------------------------------------------------
\* C23: a subscribe call for a handle that has a socket stored (an OPEN one,
\* by StoredIsOpen) is resolved with that socket in the step that issues it,
\* constructs no socket and changes neither a socket nor the map.
C23_SubscribeWhenOpenReuses ==
    [][(lastOp'.op = "subscribe" /\ aliasNameToWebSocket[lastOp'.handle] # NoSocket)
       => (/\ sockets[aliasNameToWebSocket[lastOp'.handle]].readyState = "OPEN"
           /\ sockets' = sockets
           /\ aliasNameToWebSocket' = aliasNameToWebSocket
           /\ calls'[lastOp'.call].state = "resolved"
           /\ calls'[lastOp'.call].socket = aliasNameToWebSocket[lastOp'.handle])]_vars

\* The call was repeated: the second and the third call found the socket of
\* the first.
C23_Witness ==
    /\ lastOp.op = "subscribe"
    /\ Len(calls) = 3
    /\ Len(sockets) = 1
    /\ \A c \in CallIds : calls[c].state = "resolved" /\ calls[c].socket = 1
    /\ aliasNameToWebSocket[lastOp.handle] = 1
    /\ sockets[1].readyState = "OPEN"

\* ---- C24 -------------------------------------------------------------------
\* C24: the entry of a handle is removed only by unsubscribe for the handle or
\* by the step in which the socket stored in the entry closes.
C24_EntryRemovedOnlyByItsSocket ==
    [][\A h \in Handles :
          (hasOwnProperty(aliasNameToWebSocket, h) /\ ~hasOwnProperty(aliasNameToWebSocket', h))
          => \/ lastOp'.op = "unsubscribe" /\ lastOp'.handle = h
             \/ /\ lastOp'.op \in {"error", "remoteclose", "closed"}
                /\ lastOp'.socket = aliasNameToWebSocket[h]]_vars

C27_LoginFailureChangesNothing ==
    [][(lastOp'.op = "loginFailed")
       => (/\ thrown' = "Error"
           /\ account' = account
           /\ calls' = calls
           /\ sockets' = sockets
           /\ aliasNameToWebSocket' = aliasNameToWebSocket
           /\ \A i \in 1..Len(clientEvents') : clientEvents'[i].name # "login")]_vars

C27_Witness ==
    /\ lastOp.op = "loginFailed"
    /\ thrown = "Error"
    /\ account = Account("alice")
    /\ clientEvents = <<>>

\* ---- C28 -------------------------------------------------------------------
\* C28: the step in which the logout request fails rejects the promise of
\* logout and changes nothing: the account stays set, the sockets and the
\* stored socket of its handle are as they were, and no logout event is
\* dispatched.
C28_LogoutFailureChangesNothing ==
    [][(lastOp'.op = "logoutFailed")
       => (/\ thrown' = "Error"
           /\ account' = account
           /\ calls' = calls
           /\ sockets' = sockets
           /\ aliasNameToWebSocket' = aliasNameToWebSocket
           /\ \A i \in 1..Len(clientEvents') : clientEvents'[i].name # "logout")]_vars

C28_Witness ==
    /\ lastOp.op = "logoutFailed"
    /\ thrown = "Error"
    /\ account = Account("alice")
    /\ aliasNameToWebSocket["alice"] # NoSocket
    /\ sockets[aliasNameToWebSocket["alice"]].readyState = "OPEN"
    /\ clientEvents = <<>>

\* ---- C29 -------------------------------------------------------------------
\* C29: once a getMessages call has run up to its await, it has thrown the
\* validation error exactly if from names more than one distinct sender and the
\* policy asked for (match, else the deprecated exact flag, else "any") is not
\* "any"; when it has thrown it, no listing request was sent; a call that did
\* not throw it, made by a Client that is logged in, sent one request.
C29_ValidationErrorExactlyForSeveralSenders ==
    (gm.phase \notin {"idle", "called"})
    => (/\ (gm.phase = "threw" /\ thrown = "Error")
              <=> (Cardinality(Range(gm.from)) > 1 /\ AskedPolicy # "any")
        /\ (gm.phase = "threw") => gm.requests = 0
        /\ (~(Cardinality(Range(gm.from)) > 1 /\ AskedPolicy # "any") /\ account # NoAccount)
              => gm.requests = 1)

C29_Witness ==
    /\ gm.phase = "threw"
    /\ thrown = "Error"
    /\ gm.from = <<"A", "B">>
    /\ gm.match = "undefined"
    /\ gm.exact = "true"
    /\ gm.requests = 0

\* from = [X, X] with "exact" is accepted: the request is sent.
C29_DuplicateSenderAccepted ==
    /\ gm.phase = "requested"
    /\ gm.from = <<"A", "A">>
    /\ gm.match = "exact"
    /\ gm.requests = 1

\* ---- C25 -------------------------------------------------------------------
\* No operation is in flight: no login or logout request is pending, every
\* subscribe call has settled, and every connection attempt has opened or
\* failed.
Quiescent ==
    /\ auth.login = 0
    /\ auth.logout = 0
    /\ \A c \in CallIds : calls[c].state # "pending"
    /\ \A s \in SocketIds : ~Unfinished(s)

\* C25: whenever no operation is in flight and the account is undefined after
\* a logout, no socket of the handle that was logged out is OPEN and none is
\* stored for it.
C25_NothingLeftAfterLogout ==
    (Quiescent /\ account = NoAccount /\ loggedOut # "none")
    => (/\ aliasNameToWebSocket[loggedOut] = NoSocket
        /\ \A s \in SocketsOf(loggedOut) : sockets[s].readyState # "OPEN")

\* What holds in those states: nothing is stored for the handle, and a socket
\* of the handle that is still OPEN was constructed while another attempt for
\* the handle was in flight or opened while another socket was stored (C1).
NothingStoredAfterLogout ==
    (Quiescent /\ account = NoAccount /\ loggedOut # "none")
    => (/\ aliasNameToWebSocket[loggedOut] = NoSocket
        /\ \A s \in SocketsOf(loggedOut) :
              (sockets[s].readyState = "OPEN") => Cardinality(SocketsOf(loggedOut)) > 1)

\* The logout that runs while the socket login constructed is CONNECTING: the
\* attempt is cancelled, and once it has failed nothing of the handle is left.
LogoutWhileConnectingLeavesNothing ==
    /\ Quiescent
    /\ account = NoAccount
    /\ loggedOut = "alice"
    /\ unsubscribedWhileConnecting["alice"]
    /\ SocketsOf("alice") # {}
    /\ \A s \in SocketsOf("alice") : sockets[s].readyState = "CLOSED" /\ ~sockets[s].opened

\* ---- C26 -------------------------------------------------------------------
\* The notifications among evts that carry the handle h.
NotificationsOf(evts, h) ==
    SelectSeq(evts, LAMBDA e : e.type \in NotificationNames /\ e.handle = h)

C30_SubscribeSettles ==
    \A c \in 1..MaxLiveCalls :
        (c \in CallIds /\ calls[c].state = "pending")
        ~> (c \in CallIds /\ calls[c].state # "pending")

\* Two calls for one handle, the second made while the first was pending, that
\* were rejected after the handle was unsubscribed while they were pending.
C30_Witness ==
    /\ Len(calls) = 2
    /\ calls[1].handle = calls[2].handle
    /\ calls[2].first = 1
    /\ calls[1].socket # calls[2].socket
    /\ unsubscribedWhileConnecting[calls[1].handle]
    /\ calls[1].state = "rejected"
    /\ calls[2].state = "rejected"

====
